---- MODULE Spec2Model ----
(***************************************************************************)
(* The session lifecycle state machine of ember-simple-auth                *)
(* (packages/ember-simple-auth/src/internal-session.js).                   *)
(*                                                                         *)
(* The session is one object; every promise it waits for (the store's      *)
(* restore, an authenticator's authenticate / restore / invalidate, the    *)
(* store's persist) is a pending task whose settlement is a step of its    *)
(* own, so that caller operations, store notifications and authenticator   *)
(* events interleave exactly where the JavaScript event loop lets them.    *)
(* Authenticators and the store are collaborators: their promises settle   *)
(* either way, with any data.                                              *)
(***************************************************************************)
EXTENDS Integers, Sequences, FiniteSets, Bags, TLC

\* ------------------------------------------------------------- bounds
\* Operations (caller calls, store notifications, authenticator events)
\* started in one run.
MaxOps == 2
\* Calls of the OAuth2 authenticator's authenticate / restore / invalidate
\* started in one run, and steps of the clock.
MaxCalls == 2
MaxTicks == 1

\* ------------------------------------------------------------- values
Null == "null"          \* JavaScript null (authenticator, attemptedTransition)
Absent == "absent"      \* a key an object does not have (undefined)
NoErr == "undefined"    \* a promise settled without a value

Registered == {"a1", "a2"}              \* factories owner.lookup finds
Names == Registered \cup {"ghost"}      \* "ghost": no such factory
Tokens == {"AT1", "AT2"}
Errors == {"e1", "e2"}                  \* what an authenticator rejects with
PersistError == "persistError"          \* what store.persist rejects with
AssertionError == "assertionError"      \* what a failed lookup throws
Transitions == {Null, "t1"}

\* The `authenticated` section: a JavaScript object over these two keys.
Obj == [authenticator : Names \cup {Absent}, access_token : Tokens \cup {Absent}]
EmptyObj == [authenticator |-> Absent, access_token |-> Absent]
\* What an authenticator resolves with, and what its events carry: it does not
\* know the factory name the session files it under.
AuthData == {o \in Obj : o.authenticator = Absent}
\* The session content / a store snapshot: the reserved key and the other keys.
\* A snapshot without `authenticated` reads as one with {} (lines 115, 233:
\* `x.authenticated || {}`).
Contents == [authenticated : Obj, other : {Absent, "u1"}]
EmptyContent == [authenticated |-> EmptyObj, other |-> Absent]

CallerOps == {"authenticate", "invalidate", "restore"}

VARIABLES
  isAuthenticated,       \* line 47
  authenticator,         \* line 45: the factory name, or null
  content,               \* line 52
  attemptedTransition,   \* line 48
  busy,                  \* this._busy, line 59
  listenersUpdated,      \* authenticators whose sessionDataUpdated calls this session
  listenersInvalidated,  \* authenticators whose sessionDataInvalidated calls this session
  tasks,                 \* bag of pending promises with the handlers chained to them
  nOps,                  \* operations started so far
  out                    \* what the last step did: events, calls, persist, settlement

\* One instance of the OAuth2 password grant authenticator
\* (packages/test-app/app/routes/auth-error.js, lines 17-456).
VARIABLES
  refreshAccessTokens,            \* line 106
  serverTokenRevocationEndpoint,  \* line 94
  testing,                        \* isTesting(), line 393
  fastboot,                       \* isFastBoot(getOwner(this)), line 383
  now,                            \* new Date().getTime()
  _refreshTokenTimeout,           \* line 143: the handle `later` returned
  timers,                         \* the run loop's pending timers of this instance
  reqs,                           \* bag of requests in flight with their handlers
  invalidating,                   \* invalidate calls whose promise has not resolved
  nCalls,                         \* calls started so far
  invalidated,                    \* invalidate resolved, no authenticate / restore called since
  did                             \* what the last step did

session == <<isAuthenticated, authenticator, content, attemptedTransition, busy>>
listeners == <<listenersUpdated, listenersInvalidated>>
config == <<refreshAccessTokens, serverTokenRevocationEndpoint, testing, fastboot>>
oauth == <<refreshAccessTokens, serverTokenRevocationEndpoint, testing, fastboot, now,
           _refreshTokenTimeout, timers, reqs, invalidating, nCalls, invalidated, did>>
manager == <<isAuthenticated, authenticator, content, attemptedTransition, busy,
             listenersUpdated, listenersInvalidated, tasks, nOps, out>>
vars == <<isAuthenticated, authenticator, content, attemptedTransition, busy,
          listenersUpdated, listenersInvalidated, tasks, nOps, out,
          refreshAccessTokens, serverTokenRevocationEndpoint, testing, fastboot, now,
          _refreshTokenTimeout, timers, reqs, invalidating, nCalls, invalidated, did>>

\* ------------------------------------------------------------ helpers
Task(op, pc, n, trigger, snap, err) ==
  [op |-> op, pc |-> pc, name |-> n, trigger |-> trigger, snap |-> snap, err |-> err]

Pending == BagToSet(tasks)
Without(t) == tasks (-) SetToBag({t})
With(base, t) == base (+) SetToBag({t})

Event(name, err) == [name |-> name, err |-> err]
Call(method, n) == [method |-> method, name |-> n]
Settled(op, how, err) == [op |-> op, how |-> how, err |-> err]

\* What a step did. act: the handler that ran; op: the operation it belongs to;
\* name: the authenticator it concerns; err / data / input: the value it was
\* called with (an authenticator's rejection, an authenticator's data, a store
\* snapshot or payload); events: what it triggered on the session; call: the
\* collaborator method it called; persist: what it handed to store.persist;
\* persisted: a store.persist resolved; settled: how the caller's promise
\* settled; thrown: it threw; dropped: it ignored its input.
Out(act, op, n) ==
  [act |-> act, op |-> op, name |-> n, err |-> NoErr, data |-> EmptyObj,
   input |-> EmptyContent, events |-> {}, call |-> <<>>, persist |-> <<>>,
   persisted |-> FALSE, settled |-> <<>>, thrown |-> FALSE, dropped |-> FALSE]

\* Object.assign({ authenticator }, data): the keys of data win.
ObjectAssign(n, data) ==
  [data EXCEPT !.authenticator = IF data.authenticator = Absent THEN n ELSE @]

\* delete x.authenticated.authenticator
DeleteAuthenticator(c) == [c EXCEPT !.authenticated.authenticator = Absent]

\* delete x.authenticated
DeleteAuthenticated(c) == [c EXCEPT !.authenticated = EmptyObj]

\* owner.lookup(name) finds a factory; the assert of line 265 throws otherwise.
_lookupAuthenticator(n) == n \in Registered

\* The content _updateStore leaves in this.content and hands to store.persist.
_updateStore(cont, auth) ==
  IF auth # Null
    THEN [cont EXCEPT !.authenticated = ObjectAssign(auth, cont.authenticated)]
    ELSE cont

\* Mutant: the trigger argument alone decides.
SetupTriggerIgnoresState(trigger) == trigger

\* trigger = Boolean(trigger) && !this.get('isAuthenticated')
SetupTrigger(trigger) == trigger /\ ~isAuthenticated

\* The trigger argument of the _setup call of restore (line 123: none) and of
\* the store notification's handler (line 241: true), each with its mutant.
RestoreTriggerSet == TRUE
RestoreTrigger == FALSE
SyncTriggerUnset == FALSE
SyncTrigger == TRUE

\* if (!this._busy), line 231, and its mutant: no guard.
AcceptsAlways == TRUE
AcceptsStoreEvent == ~busy

\* trigger = Boolean(trigger) && this.get('isAuthenticated')
ClearTrigger(trigger) == trigger /\ isAuthenticated

\* ------------------------------------- the OAuth2 authenticator's values
Undefined == -1          \* a numeric key an object does not have
EmptyString == ""
MsPerSecond == 1000      \* expiresIn * 1000, lines 387 and 449
StartTime == 20000       \* the clock when the run starts
TickMs == 5000           \* one step of the clock
NoTimer == 0             \* _refreshTokenTimeout: null

AccessTokens == {Absent, "AT1"}
ExpiresIns == {Undefined, 0, 10}                 \* seconds
\* expires_at of a snapshot: unset, in the past, in the future.
SnapshotTimes == {Undefined, StartTime - 2 * TickMs, StartTime + 2 * TickMs}
\* (Math.floor(Math.random() * (max - min)) + min) * 1000, min = 5, max = 10:
\* the least and the greatest value tokenRefreshOffset returns.
TokenRefreshOffsets == {5 * MsPerSecond, 9 * MsPerSecond}
RevocationEndpoint == "/revoke"

\* What restore is given.
Snapshots ==
  [access_token : AccessTokens, expires_in : ExpiresIns, expires_at : SnapshotTimes,
   refresh_token : {Absent, "RT1"}]
\* What the token endpoint answers with HTTP success.
Responses ==
  [access_token : AccessTokens, expires_in : ExpiresIns, expires_at : {Undefined},
   refresh_token : {Absent, "RT1"}]
\* What it answers a refresh request with: the new access token is there.
RefreshResponses == {response \in Responses : response.access_token # Absent}
NoData ==
  [access_token |-> Absent, expires_in |-> Undefined, expires_at |-> Undefined,
   refresh_token |-> Absent]

\* Ember's isEmpty on a string key and on a numeric key (0 is not empty).
isEmpty(x) == x \in {Absent, EmptyString}
isEmptyNumber(x) == x = Undefined
\* a || b on a numeric key and on a string key
OrNumber(a, b) == IF a = Undefined \/ a = 0 THEN b ELSE a
OrString(a, b) == IF a \in {Absent, EmptyString} THEN b ELSE a

\* What a step of the authenticator did. act: the method or handler that ran;
\* call: the invalidate call it belongs to (1: a call of authenticate or restore;
\* 0: none, the timer's refresh); input: the data it was given;
\* settled / why / value: how the call's promise settled, with what kind of
\* value, and the data; requests: the requests it issued; emitted: the data of
\* the sessionDataUpdated it triggered; cancelled / replaced / scheduled: it
\* called cancel on the refresh timer's handle, a timer was pending under that
\* handle, it scheduled a timer.
Did(act, call) ==
  [act |-> act, call |-> call, input |-> NoData, settled |-> "none", why |-> "none",
   value |-> NoData, requests |-> {}, emitted |-> <<>>, cancelled |-> FALSE,
   replaced |-> FALSE, scheduled |-> FALSE]

\* A request in flight. kind: "token", "refresh" or "revoke"; call: the
\* invalidate call whose Promise.all waits for it, 1 for a request whose handlers
\* settle the promise of an authenticate or a restore, 0 for the timer's refresh,
\* whose promise nobody holds; expiresIn,
\* refreshToken: the arguments of _refreshAccessToken; expiresAt: the expires_at
\* of the snapshot restore was given; hint: token_type_hint.
Request(kind, call, expiresIn, refreshToken, expiresAt, hint) ==
  [kind |-> kind, call |-> call, expiresIn |-> expiresIn, refreshToken |-> refreshToken,
   expiresAt |-> expiresAt, hint |-> hint]

InFlight == BagToSet(reqs)

SessionInit ==
  /\ isAuthenticated = FALSE
  /\ authenticator = Null
  /\ content = EmptyContent
  /\ attemptedTransition = Null
  /\ busy = FALSE
  /\ listenersUpdated = {}
  /\ listenersInvalidated = {}
  /\ tasks = EmptyBag
  /\ nOps = 0
  /\ out = Out("init", "none", Null)

\* The authenticator as configured: r, e, t, f are refreshAccessTokens, the
\* revocation endpoint, isTesting() and isFastBoot().
OAuth2Init(r, e, t, f) ==
  /\ refreshAccessTokens = r
  /\ serverTokenRevocationEndpoint = e
  /\ testing = t
  /\ fastboot = f
  /\ now = StartTime
  /\ _refreshTokenTimeout = NoTimer
  /\ timers = {}
  /\ reqs = EmptyBag
  /\ invalidating = {}
  /\ nCalls = 0
  /\ invalidated = FALSE
  /\ did = Did("init", 0)

\* The session under the authenticator's defaults (lines 94, 106).
Init == SessionInit /\ OAuth2Init(TRUE, Absent, FALSE, FALSE)

\* _setup(authenticator, authenticatedContent, trigger) called with this.content
\* being cont; base is the bag of the promises still pending and act the record
\* of the step so far. Leaves busy, attemptedTransition and nOps to the caller.
_setup(base, op, n, authenticatedContent, trigger, cont, act) ==
  LET trig == SetupTrigger(trigger)
      set == [cont EXCEPT !.authenticated = authenticatedContent]
      data == _updateStore(set, n)
  IN /\ isAuthenticated' = TRUE
     /\ authenticator' = n
     /\ IF _lookupAuthenticator(n)
          THEN /\ listenersUpdated' = listenersUpdated \cup {n}
               /\ listenersInvalidated' = listenersInvalidated \cup {n}
               /\ content' = data
               /\ tasks' = With(base, Task(op, "setup", n, trig, EmptyContent, NoErr))
               /\ out' = [act EXCEPT !.persist = <<data>>]
          ELSE \* _bindToAuthenticatorEvents throws: nothing is persisted
               /\ content' = set
               /\ tasks' = base
               /\ out' = [act EXCEPT !.thrown = TRUE]
               /\ UNCHANGED listeners

\* Mutant: _clear forgets to reset the authenticator.
_clearKeepsAuthenticator(base, op, n, trigger, cont, err, act) ==
  LET trig == ClearTrigger(trigger)
      data == [cont EXCEPT !.authenticated = EmptyObj]
  IN /\ isAuthenticated' = FALSE
     /\ authenticator' = authenticator
     /\ content' = data
     /\ tasks' = With(base, Task(op, "clear", n, trig, EmptyContent, err))
     /\ out' = [act EXCEPT !.persist = <<data>>]

\* _clear(trigger) called with this.content being cont (_clearWithContent sets
\* it first); err is the error the caller's chain rejects with afterwards.
_clear(base, op, n, trigger, cont, err, act) ==
  LET trig == ClearTrigger(trigger)
      data == _updateStore([cont EXCEPT !.authenticated = EmptyObj], Null)
  IN /\ isAuthenticated' = FALSE
     /\ authenticator' = Null
     /\ content' = data
     /\ tasks' = With(base, Task(op, "clear", n, trig, EmptyContent, err))
     /\ out' = [act EXCEPT !.persist = <<data>>]

\* Mutant: _clearWithContent clears without installing the content it is given.
_clearWithContentKeepsOld(base, op, n, trigger, cont, err, act) ==
  _clear(base, op, n, trigger, content, err, act)

\* _clearWithContent(content, trigger)
_clearWithContent(base, op, n, trigger, cont, err, act) ==
  _clear(base, op, n, trigger, cont, err, act)

\* ------------------------------------------------- authenticate (63-83)
authenticate(n) ==
  /\ nOps < MaxOps
  /\ nOps' = nOps + 1
  /\ busy' = TRUE
  /\ IF _lookupAuthenticator(n)
       THEN /\ tasks' = With(tasks, Task("authenticate", "authenticator", n, FALSE,
                                        EmptyContent, NoErr))
            /\ out' = [Out("authenticate", "authenticate", n)
                         EXCEPT !.call = <<Call("authenticate", n)>>]
       ELSE /\ tasks' = tasks
            /\ out' = [Out("authenticate", "authenticate", n) EXCEPT !.thrown = TRUE]
  /\ UNCHANGED <<isAuthenticated, authenticator, content, attemptedTransition, listeners>>

authenticateResolved(t, c) ==
  /\ t.op = "authenticate" /\ t.pc = "authenticator"
  /\ busy' = FALSE
  /\ _setup(Without(t), "authenticate", t.name, c, TRUE, content,
            [Out("authenticateResolved", "authenticate", t.name) EXCEPT !.data = c])
  /\ UNCHANGED <<attemptedTransition, nOps>>

authenticateRejected(t, e) ==
  /\ t.op = "authenticate" /\ t.pc = "authenticator"
  /\ busy' = FALSE
  /\ _clear(Without(t), "authenticate", t.name, FALSE, content, e,
            [Out("authenticateRejected", "authenticate", t.name) EXCEPT !.err = e])
  /\ UNCHANGED <<attemptedTransition, nOps, listeners>>

\* --------------------------------------------------- invalidate (85-107)
invalidate ==
  /\ nOps < MaxOps
  /\ nOps' = nOps + 1
  /\ attemptedTransition' = Null
  /\ IF ~isAuthenticated
       THEN /\ busy' = FALSE
            /\ tasks' = tasks
            /\ out' = [Out("invalidate", "invalidate", authenticator)
                         EXCEPT !.settled = <<Settled("invalidate", "resolved", NoErr)>>]
       ELSE /\ busy' = TRUE
            /\ IF _lookupAuthenticator(authenticator)
                 THEN /\ tasks' = With(tasks, Task("invalidate", "authenticator", authenticator,
                                                  FALSE, EmptyContent, NoErr))
                      /\ out' = [Out("invalidate", "invalidate", authenticator)
                                   EXCEPT !.call = <<Call("invalidate", authenticator)>>]
                 ELSE /\ tasks' = tasks
                      /\ out' = [Out("invalidate", "invalidate", authenticator)
                                   EXCEPT !.thrown = TRUE]
  /\ UNCHANGED <<isAuthenticated, authenticator, content, listeners>>

invalidateResolved(t) ==
  /\ t.op = "invalidate" /\ t.pc = "authenticator"
  /\ listenersUpdated' = listenersUpdated \ {t.name}
  /\ busy' = FALSE
  /\ _clear(Without(t), "invalidate", t.name, TRUE, content, NoErr,
            Out("invalidateResolved", "invalidate", t.name))
  /\ UNCHANGED <<attemptedTransition, nOps, listenersInvalidated>>

\* Mutant: the rejection handler clears the session before it rejects.
invalidateRejectedClears(t, e) ==
  /\ t.op = "invalidate" /\ t.pc = "authenticator"
  /\ busy' = FALSE
  /\ isAuthenticated' = FALSE
  /\ authenticator' = Null
  /\ content' = [content EXCEPT !.authenticated = EmptyObj]
  /\ tasks' = Without(t)
  /\ out' = [Out("invalidateRejected", "invalidate", t.name)
               EXCEPT !.err = e,
                      !.events = {Event("sessionInvalidationFailed", e)},
                      !.settled = <<Settled("invalidate", "rejected", e)>>]
  /\ UNCHANGED <<attemptedTransition, nOps, listeners>>

invalidateRejected(t, e) ==
  /\ t.op = "invalidate" /\ t.pc = "authenticator"
  /\ busy' = FALSE
  /\ tasks' = Without(t)
  /\ out' = [Out("invalidateRejected", "invalidate", t.name)
               EXCEPT !.err = e,
                      !.events = {Event("sessionInvalidationFailed", e)},
                      !.settled = <<Settled("invalidate", "rejected", e)>>]
  /\ UNCHANGED <<isAuthenticated, authenticator, content, attemptedTransition, nOps, listeners>>

\* ----------------------------------------------------- restore (109-147)
restore ==
  /\ nOps < MaxOps
  /\ nOps' = nOps + 1
  /\ busy' = TRUE
  /\ tasks' = With(tasks, Task("restore", "store", Null, FALSE, EmptyContent, NoErr))
  /\ out' = [Out("restore", "restore", Null) EXCEPT !.call = <<Call("store.restore", Null)>>]
  /\ UNCHANGED <<isAuthenticated, authenticator, content, attemptedTransition, listeners>>

\* store.restore() resolved with restoredContent
restoreStoreResolved(t, restoredContent) ==
  LET authenticatorFactory == restoredContent.authenticated.authenticator
  IN /\ t.op = "restore" /\ t.pc = "store"
     /\ IF authenticatorFactory # Absent
          THEN /\ busy' = busy
               /\ IF _lookupAuthenticator(authenticatorFactory)
                    THEN /\ tasks' = With(Without(t),
                                          Task("restore", "authenticator", authenticatorFactory,
                                               FALSE, DeleteAuthenticator(restoredContent),
                                               NoErr))
                         /\ out' = [Out("restoreStoreResolved", "restore", authenticatorFactory)
                                      EXCEPT !.input = restoredContent,
                                             !.call = <<Call("restore", authenticatorFactory)>>]
                    ELSE \* the lookup throws inside the handler: the promise rejects
                         /\ tasks' = Without(t)
                         /\ out' = [Out("restoreStoreResolved", "restore", authenticatorFactory)
                                      EXCEPT !.input = restoredContent,
                                             !.thrown = TRUE,
                                             !.settled = <<Settled("restore", "rejected",
                                                                   AssertionError)>>]
               /\ UNCHANGED <<isAuthenticated, authenticator, content, listeners>>
          ELSE /\ busy' = FALSE
               /\ _clearWithContent(Without(t), "restore", Null, FALSE,
                                    DeleteAuthenticated(restoredContent), NoErr,
                                    [Out("restoreStoreResolved", "restore", Null)
                                       EXCEPT !.input = restoredContent])
               /\ UNCHANGED listeners
     /\ UNCHANGED <<attemptedTransition, nOps>>

restoreStoreRejected(t) ==
  /\ t.op = "restore" /\ t.pc = "store"
  /\ busy' = FALSE
  /\ _clear(Without(t), "restore", Null, FALSE, content, NoErr,
            Out("restoreStoreRejected", "restore", Null))
  /\ UNCHANGED <<attemptedTransition, nOps, listeners>>

\* authenticator.restore(restoredContent.authenticated) resolved with c
restoreAuthResolved(t, c) ==
  /\ t.op = "restore" /\ t.pc = "authenticator"
  /\ busy' = FALSE
  /\ _setup(Without(t), "restore", t.name, c, RestoreTrigger, t.snap,
            [Out("restoreAuthResolved", "restore", t.name) EXCEPT !.data = c, !.input = t.snap])
  /\ UNCHANGED <<attemptedTransition, nOps>>

restoreAuthRejected(t) ==
  /\ t.op = "restore" /\ t.pc = "authenticator"
  /\ busy' = FALSE
  /\ _clearWithContent(Without(t), "restore", t.name, FALSE, t.snap, NoErr,
                       [Out("restoreAuthRejected", "restore", t.name) EXCEPT !.input = t.snap])
  /\ UNCHANGED <<attemptedTransition, nOps, listeners>>

\* ------------------------------------------ _bindToStoreEvents (229-260)
\* The store's sessionDataUpdated notification with payload c.
storeSessionDataUpdated(c) ==
  LET authenticatorFactory == c.authenticated.authenticator
  IN /\ nOps < MaxOps
     /\ nOps' = nOps + 1
     /\ IF ~AcceptsStoreEvent
          THEN /\ out' = [Out("storeSessionDataUpdated", "sync", authenticatorFactory)
                            EXCEPT !.input = c, !.dropped = TRUE]
               /\ UNCHANGED <<session, listeners, tasks>>
          ELSE IF authenticatorFactory # Absent
            THEN /\ busy' = TRUE
                 /\ IF _lookupAuthenticator(authenticatorFactory)
                      THEN /\ tasks' = With(tasks,
                                            Task("sync", "authenticator", authenticatorFactory,
                                                 FALSE, DeleteAuthenticator(c), NoErr))
                           /\ out' = [Out("storeSessionDataUpdated", "sync", authenticatorFactory)
                                        EXCEPT !.input = c,
                                               !.call = <<Call("restore", authenticatorFactory)>>]
                      ELSE /\ tasks' = tasks
                           /\ out' = [Out("storeSessionDataUpdated", "sync", authenticatorFactory)
                                        EXCEPT !.input = c, !.thrown = TRUE]
                 /\ UNCHANGED <<isAuthenticated, authenticator, content, attemptedTransition,
                                listeners>>
            ELSE /\ busy' = FALSE
                 /\ _clearWithContent(tasks, "sync", Null, TRUE, c, NoErr,
                                      [Out("storeSessionDataUpdated", "sync", Null)
                                         EXCEPT !.input = c])
                 /\ UNCHANGED <<attemptedTransition, listeners>>

syncAuthResolved(t, authenticatedContent) ==
  /\ t.op = "sync" /\ t.pc = "authenticator"
  /\ busy' = FALSE
  /\ _setup(Without(t), "sync", t.name, authenticatedContent, SyncTrigger, t.snap,
            [Out("syncAuthResolved", "sync", t.name)
               EXCEPT !.data = authenticatedContent, !.input = t.snap])
  /\ UNCHANGED <<attemptedTransition, nOps>>

syncAuthRejected(t) ==
  /\ t.op = "sync" /\ t.pc = "authenticator"
  /\ busy' = FALSE
  /\ _clearWithContent(Without(t), "sync", t.name, TRUE, t.snap, NoErr,
                       [Out("syncAuthRejected", "sync", t.name) EXCEPT !.input = t.snap])
  /\ UNCHANGED <<attemptedTransition, nOps, listeners>>

\* ------------------------------------- authenticator events (215-227)
\* Mutant: the handler sets the session up again with the data it already has.
_onSessionDataUpdatedKeepsContent(n, c) ==
  /\ n \in listenersUpdated
  /\ nOps < MaxOps
  /\ nOps' = nOps + 1
  /\ _setup(tasks, "updated", authenticator, DeleteAuthenticator(content).authenticated,
            FALSE, content,
            [Out("_onSessionDataUpdated", "updated", n) EXCEPT !.data = c])
  /\ UNCHANGED <<attemptedTransition, busy>>

\* Authenticator n emits sessionDataUpdated(c): it calls the session only
\* while the session is among its listeners.
_onSessionDataUpdated(n, c) ==
  /\ n \in listenersUpdated
  /\ nOps < MaxOps
  /\ nOps' = nOps + 1
  /\ _setup(tasks, "updated", authenticator, c, FALSE, content,
            [Out("_onSessionDataUpdated", "updated", n) EXCEPT !.data = c])
  /\ UNCHANGED <<attemptedTransition, busy>>

_onSessionDataInvalidated(n) ==
  /\ n \in listenersInvalidated
  /\ nOps < MaxOps
  /\ nOps' = nOps + 1
  /\ _clear(tasks, "invalidated", n, TRUE, content, NoErr,
            Out("_onSessionDataInvalidated", "invalidated", n))
  /\ UNCHANGED <<attemptedTransition, busy, listeners>>

\* ----------------------------------------- store.persist settles
\* What the promise of a caller's operation does once _setup's persist settled:
\* both handlers of lines 158-171 return normally.
SetupSettled(t) ==
  IF t.op \in CallerOps THEN <<Settled(t.op, "resolved", NoErr)>> ELSE <<>>

\* ... and once _clear's persist resolved: lines 80, 99, 133, 139, 144.
ClearSettled(t) ==
  CASE t.op = "authenticate" -> <<Settled(t.op, "rejected", t.err)>>
    [] t.op = "restore" -> <<Settled(t.op, "rejected", NoErr)>>
    [] t.op = "invalidate" -> <<Settled(t.op, "resolved", NoErr)>>
    [] OTHER -> <<>>

\* Mutant: authenticate chains only a fulfilment handler to _clear().
ClearFailedSettledUnhandled(t) ==
  CASE t.op = "authenticate" -> <<Settled(t.op, "rejected", PersistError)>>
    [] t.op = "restore" -> <<Settled(t.op, "rejected", NoErr)>>
    [] t.op = "invalidate" -> <<Settled(t.op, "rejected", PersistError)>>
    [] OTHER -> <<>>

\* ... and once _clear's persist rejected: _clear has no rejection handler.
ClearFailedSettled(t) ==
  CASE t.op = "authenticate" -> <<Settled(t.op, "rejected", t.err)>>
    [] t.op = "restore" -> <<Settled(t.op, "rejected", NoErr)>>
    [] t.op = "invalidate" -> <<Settled(t.op, "rejected", PersistError)>>
    [] OTHER -> <<>>

\* lines 159-163
setupPersisted(t) ==
  /\ t.pc = "setup"
  /\ tasks' = Without(t)
  /\ out' = [Out("setupPersisted", t.op, t.name)
               EXCEPT !.events = IF t.trigger THEN {Event("authenticationSucceeded", NoErr)}
                                 ELSE {},
                      !.persisted = TRUE,
                      !.settled = SetupSettled(t)]
  /\ UNCHANGED <<session, listeners, nOps>>

\* Mutant: the rejection handler of _setup's persist leaves the fields alone.
setupPersistFailedKeepsState(t) ==
  /\ t.pc = "setup"
  /\ tasks' = Without(t)
  /\ out' = [Out("setupPersistFailed", t.op, t.name) EXCEPT !.settled = SetupSettled(t)]
  /\ UNCHANGED <<session, listeners, nOps>>

\* lines 164-170
setupPersistFailed(t) ==
  /\ t.pc = "setup"
  /\ isAuthenticated' = FALSE
  /\ authenticator' = Null
  /\ content' = [content EXCEPT !.authenticated = EmptyObj]
  /\ tasks' = Without(t)
  /\ out' = [Out("setupPersistFailed", t.op, t.name) EXCEPT !.settled = SetupSettled(t)]
  /\ UNCHANGED <<attemptedTransition, busy, listeners, nOps>>

\* lines 182-186
clearPersisted(t) ==
  /\ t.pc = "clear"
  /\ tasks' = Without(t)
  /\ out' = [Out("clearPersisted", t.op, t.name)
               EXCEPT !.events = IF t.trigger THEN {Event("invalidationSucceeded", NoErr)}
                                 ELSE {},
                      !.persisted = TRUE,
                      !.settled = ClearSettled(t)]
  /\ UNCHANGED <<session, listeners, nOps>>

clearPersistFailed(t) ==
  /\ t.pc = "clear"
  /\ tasks' = Without(t)
  /\ out' = [Out("clearPersistFailed", t.op, t.name) EXCEPT !.settled = ClearFailedSettled(t)]
  /\ UNCHANGED <<session, listeners, nOps>>

\* ------------------------------------------------ the caller's route
\* session.requireAuthentication(transition, 'login') records the transition
\* it intercepted while the session is not authenticated.
requireAuthentication(tr) ==
  /\ nOps < MaxOps
  /\ nOps' = nOps + 1
  /\ ~isAuthenticated
  /\ attemptedTransition' = tr
  /\ out' = Out("requireAuthentication", "none", Null)
  /\ UNCHANGED <<isAuthenticated, authenticator, content, busy, listeners, tasks>>

\* ------------------------------------------------------- specification
Next ==
  \/ \E n \in Names : authenticate(n) /\ UNCHANGED oauth
  \/ invalidate /\ UNCHANGED oauth
  \/ restore /\ UNCHANGED oauth
  \/ \E c \in Contents : storeSessionDataUpdated(c) /\ UNCHANGED oauth
  \/ \E n \in Registered, c \in AuthData : _onSessionDataUpdated(n, c) /\ UNCHANGED oauth
  \/ \E n \in Registered : _onSessionDataInvalidated(n) /\ UNCHANGED oauth
  \/ \E tr \in Transitions \ {Null} : requireAuthentication(tr) /\ UNCHANGED oauth
  \/ \E t \in Pending, c \in AuthData : authenticateResolved(t, c) /\ UNCHANGED oauth
  \/ \E t \in Pending, e \in Errors : authenticateRejected(t, e) /\ UNCHANGED oauth
  \/ \E t \in Pending : invalidateResolved(t) /\ UNCHANGED oauth
  \/ \E t \in Pending, e \in Errors : invalidateRejected(t, e) /\ UNCHANGED oauth
  \/ \E t \in Pending, c \in Contents : restoreStoreResolved(t, c) /\ UNCHANGED oauth
  \/ \E t \in Pending : restoreStoreRejected(t) /\ UNCHANGED oauth
  \/ \E t \in Pending, c \in AuthData : restoreAuthResolved(t, c) /\ UNCHANGED oauth
  \/ \E t \in Pending : restoreAuthRejected(t) /\ UNCHANGED oauth
  \/ \E t \in Pending, c \in AuthData : syncAuthResolved(t, c) /\ UNCHANGED oauth
  \/ \E t \in Pending : syncAuthRejected(t) /\ UNCHANGED oauth
  \/ \E t \in Pending : setupPersisted(t) /\ UNCHANGED oauth
  \/ \E t \in Pending : setupPersistFailed(t) /\ UNCHANGED oauth
  \/ \E t \in Pending : clearPersisted(t) /\ UNCHANGED oauth
  \/ \E t \in Pending : clearPersistFailed(t) /\ UNCHANGED oauth

Spec == Init /\ [][Next]_vars

\* Sequences of authenticate and invalidate: each call starts when nothing is
\* pending, and neither the store nor an authenticator raises an event.
Idle == tasks = EmptyBag

NextSeq ==
  \/ \E n \in Names : Idle /\ authenticate(n) /\ UNCHANGED oauth
  \/ Idle /\ invalidate /\ UNCHANGED oauth
  \/ \E t \in Pending, c \in AuthData : authenticateResolved(t, c) /\ UNCHANGED oauth
  \/ \E t \in Pending, e \in Errors : authenticateRejected(t, e) /\ UNCHANGED oauth
  \/ \E t \in Pending : invalidateResolved(t) /\ UNCHANGED oauth
  \/ \E t \in Pending, e \in Errors : invalidateRejected(t, e) /\ UNCHANGED oauth
  \/ \E t \in Pending : setupPersisted(t) /\ UNCHANGED oauth
  \/ \E t \in Pending : setupPersistFailed(t) /\ UNCHANGED oauth
  \/ \E t \in Pending : clearPersisted(t) /\ UNCHANGED oauth
  \/ \E t \in Pending : clearPersistFailed(t) /\ UNCHANGED oauth

SpecSeq == Init /\ [][NextSeq]_vars

\* Every authenticator and store promise settles: a handler chained to a pending
\* promise runs at some point. Nothing obliges a caller, the store or an
\* authenticator to start anything.
Settles ==
  /\ \E t \in Pending :
       \/ \E c \in AuthData : authenticateResolved(t, c)
       \/ \E e \in Errors : authenticateRejected(t, e)
       \/ invalidateResolved(t)
       \/ \E e \in Errors : invalidateRejected(t, e)
       \/ \E c \in Contents : restoreStoreResolved(t, c)
       \/ restoreStoreRejected(t)
       \/ \E c \in AuthData : restoreAuthResolved(t, c)
       \/ restoreAuthRejected(t)
       \/ \E c \in AuthData : syncAuthResolved(t, c)
       \/ syncAuthRejected(t)
       \/ setupPersisted(t)
       \/ setupPersistFailed(t)
       \/ clearPersisted(t)
       \/ clearPersistFailed(t)
  /\ UNCHANGED oauth

SpecLive == Init /\ [][Next]_vars /\ WF_vars(Settles)

\* ======================================= the OAuth2 authenticator
\* Mutant: any data passes.
_validateAnything(data) == TRUE

\* _validate(data), lines 453-455
_validate(data) == ~isEmpty(data.access_token)

\* Mutant: the expiration time is left relative.
_relativeExpirationTime(expiresIn) ==
  IF ~isEmptyNumber(expiresIn) THEN expiresIn * MsPerSecond ELSE Undefined

\* _absolutizeExpirationTime(expiresIn), lines 447-451
_absolutizeExpirationTime(expiresIn) ==
  IF ~isEmptyNumber(expiresIn) THEN now + expiresIn * MsPerSecond ELSE Undefined

\* cancel(handle): the pending timers without the one the handle names.
cancel(handle) == {t \in timers : t.id # handle}

\* later(this, this._refreshAccessToken, expiresIn, refreshToken, delay): the
\* timer, due at now + delay, under a handle no pending timer has.
Timer(id, expiresIn, refreshToken, due) ==
  [id |-> id, expiresIn |-> expiresIn, refreshToken |-> refreshToken, due |-> due]

NewTimerId(ts) ==
  CHOOSE i \in 1..(Cardinality(ts) + 1) :
    /\ \A t \in ts : t.id # i
    /\ \A j \in 1..(i - 1) : \E t \in ts : t.id = j

\* Mutant: a new timer is scheduled without cancelling the one before.
_scheduleWithoutCancel(expiresIn, expiresAt, refreshToken) ==
  LET at == IF isEmptyNumber(expiresAt) /\ ~isEmptyNumber(expiresIn)
              THEN now + expiresIn * MsPerSecond
              ELSE expiresAt
      none == [timers |-> timers, handle |-> _refreshTokenTimeout,
               cancelled |-> FALSE, replaced |-> FALSE, scheduled |-> FALSE]
  IN IF refreshAccessTokens /\ ~fastboot /\ ~isEmpty(refreshToken) /\ ~isEmptyNumber(at)
       THEN { IF at > now - offset
                THEN IF ~testing
                       THEN LET id == NewTimerId(timers)
                            IN [timers |-> timers \cup {Timer(id, expiresIn, refreshToken,
                                                              at - offset)},
                                handle |-> id, cancelled |-> FALSE, replaced |-> FALSE,
                                scheduled |-> TRUE]
                       ELSE none
                ELSE none : offset \in TokenRefreshOffsets }
       ELSE {none}

\* _scheduleAccessTokenRefresh(expiresIn, expiresAt, refreshToken), lines
\* 382-404: the timers and the handle it may leave, one outcome for each value
\* tokenRefreshOffset may return where the offset is used (line 390), and
\* whether it cancelled and scheduled.
_scheduleAccessTokenRefresh(expiresIn, expiresAt, refreshToken) ==
  LET at == IF isEmptyNumber(expiresAt) /\ ~isEmptyNumber(expiresIn)
              THEN now + expiresIn * MsPerSecond
              ELSE expiresAt
      kept == cancel(_refreshTokenTimeout)
      none == [timers |-> timers, handle |-> _refreshTokenTimeout,
               cancelled |-> FALSE, replaced |-> FALSE, scheduled |-> FALSE]
  IN IF refreshAccessTokens /\ ~fastboot /\ ~isEmpty(refreshToken) /\ ~isEmptyNumber(at)
       THEN { IF at > now - offset
                THEN IF ~testing
                       THEN LET id == NewTimerId(kept)
                            IN [timers |-> kept \cup {Timer(id, expiresIn, refreshToken,
                                                            at - offset)},
                                handle |-> id, cancelled |-> TRUE, replaced |-> kept # timers,
                                scheduled |-> TRUE]
                       ELSE [timers |-> kept, handle |-> NoTimer, cancelled |-> TRUE,
                             replaced |-> kept # timers, scheduled |-> FALSE]
                ELSE none : offset \in TokenRefreshOffsets }
       ELSE {none}

\* ---------------------------------------------- authenticate (247-281)
OAuth2Authenticate ==
  /\ nCalls < MaxCalls
  /\ nCalls' = nCalls + 1
  /\ invalidated' = FALSE
  /\ reqs' = reqs (+) SetToBag({Request("token", 1, Undefined, Absent, Undefined, Absent)})
  /\ did' = [Did("authenticate", 1) EXCEPT !.requests = {"token"}]
  /\ UNCHANGED <<config, now, _refreshTokenTimeout, timers, invalidating>>

\* The token request of authenticate succeeded with response: lines 257-275.
\* reject(...) does not leave the handler; the resolve after it has no effect.
tokenResponse(r, response) ==
  /\ r.kind = "token"
  /\ \E s \in _scheduleAccessTokenRefresh(response.expires_in,
                                           _absolutizeExpirationTime(response.expires_in),
                                           response.refresh_token) :
       LET valid == _validate(response)
           expiresAt == _absolutizeExpirationTime(response.expires_in)
           augmented == IF ~isEmptyNumber(expiresAt)
                          THEN [response EXCEPT !.expires_at = expiresAt]
                          ELSE response
       IN /\ timers' = s.timers
          /\ _refreshTokenTimeout' = s.handle
          /\ did' = [Did("tokenResponse", r.call)
                       EXCEPT !.input = response,
                              !.settled = IF valid THEN "resolved" ELSE "rejected",
                              !.why = IF valid THEN "data" ELSE "message",
                              !.value = augmented,
                              !.cancelled = s.cancelled,
                              !.replaced = s.replaced,
                              !.scheduled = s.scheduled]
  /\ reqs' = reqs (-) SetToBag({r})
  /\ UNCHANGED <<config, now, invalidating, nCalls, invalidated>>

\* The token request of authenticate failed: lines 276-278.
tokenFailed(r) ==
  /\ r.kind = "token"
  /\ reqs' = reqs (-) SetToBag({r})
  /\ did' = [Did("tokenFailed", r.call) EXCEPT !.settled = "rejected", !.why = "response"]
  /\ UNCHANGED <<config, now, _refreshTokenTimeout, timers, invalidating, nCalls, invalidated>>

\* --------------------------------------------------- restore (163-189)
OAuth2Restore(data) ==
  /\ nCalls < MaxCalls
  /\ nCalls' = nCalls + 1
  /\ invalidated' = FALSE
  /\ IF ~isEmptyNumber(data.expires_at) /\ data.expires_at < now
       THEN IF refreshAccessTokens
              THEN /\ reqs' = reqs (+) SetToBag({Request("refresh", 1, data.expires_in,
                                                         data.refresh_token, data.expires_at,
                                                         Absent)})
                   /\ did' = [Did("restore", 1)
                                EXCEPT !.input = data, !.requests = {"refresh"}]
                   /\ UNCHANGED <<_refreshTokenTimeout, timers>>
              ELSE /\ did' = [Did("restore", 1)
                                EXCEPT !.input = data, !.settled = "rejected",
                                       !.why = "undefined"]
                   /\ UNCHANGED <<_refreshTokenTimeout, timers, reqs>>
       ELSE IF ~_validate(data)
              THEN /\ did' = [Did("restore", 1)
                                EXCEPT !.input = data, !.settled = "rejected",
                                       !.why = "undefined"]
                   /\ UNCHANGED <<_refreshTokenTimeout, timers, reqs>>
              ELSE /\ \E s \in _scheduleAccessTokenRefresh(data.expires_in, data.expires_at,
                                                                data.refresh_token) :
                           /\ timers' = s.timers
                           /\ _refreshTokenTimeout' = s.handle
                           /\ did' = [Did("restore", 1)
                                        EXCEPT !.input = data, !.settled = "resolved",
                                               !.why = "data", !.value = data,
                                               !.cancelled = s.cancelled,
                                               !.replaced = s.replaced,
                                               !.scheduled = s.scheduled]
                   /\ UNCHANGED reqs
  /\ UNCHANGED <<config, now, invalidating>>

\* ------------------------------------- _refreshAccessToken (406-445)
\* The run loop runs the timer t: _refreshAccessToken(expiresIn, refreshToken).
\* Nothing is chained to the promise it returns.
timerFires(t) ==
  /\ t \in timers
  /\ now >= t.due
  /\ timers' = timers \ {t}
  /\ reqs' = reqs (+) SetToBag({Request("refresh", 0, t.expiresIn, t.refreshToken,
                                        Undefined, Absent)})
  /\ did' = [Did("timerFires", 0) EXCEPT !.requests = {"refresh"}]
  /\ UNCHANGED <<config, now, _refreshTokenTimeout, invalidating, nCalls, invalidated>>

\* The refresh request r succeeded with response: lines 416-433.
refreshResponse(r, response) ==
  /\ r.kind = "refresh"
  /\ LET expiresIn == OrNumber(response.expires_in, r.expiresIn)
         refreshToken == OrString(response.refresh_token, r.refreshToken)
         expiresAt == _absolutizeExpirationTime(expiresIn)
         data == [response EXCEPT !.expires_in = expiresIn,
                                  !.expires_at = expiresAt,
                                  !.refresh_token = refreshToken]
     IN \E s \in _scheduleAccessTokenRefresh(expiresIn, Undefined, refreshToken) :
          /\ timers' = s.timers
          /\ _refreshTokenTimeout' = s.handle
          /\ did' = [Did("refreshResponse", r.call)
                       EXCEPT !.input = response,
                              !.emitted = <<data>>,
                              !.settled = IF r.call # 0 THEN "resolved" ELSE "none",
                              !.why = IF r.call # 0 THEN "data" ELSE "none",
                              !.value = data,
                              !.cancelled = s.cancelled,
                              !.replaced = s.replaced,
                              !.scheduled = s.scheduled]
  /\ reqs' = reqs (-) SetToBag({r})
  /\ UNCHANGED <<config, now, invalidating, nCalls, invalidated>>

\* The refresh request r failed: lines 435-442.
refreshFailed(r) ==
  /\ r.kind = "refresh"
  /\ reqs' = reqs (-) SetToBag({r})
  /\ did' = [Did("refreshFailed", r.call)
               EXCEPT !.settled = IF r.call # 0 THEN "rejected" ELSE "none",
                      !.why = IF r.call # 0 THEN "undefined" ELSE "none"]
  /\ UNCHANGED <<config, now, _refreshTokenTimeout, timers, invalidating, nCalls, invalidated>>

\* ------------------------------------------------ invalidate (298-327)
\* success(resolve), lines 300-304; act is the record of the step so far.
success(act) ==
  /\ timers' = cancel(_refreshTokenTimeout)
  /\ _refreshTokenTimeout' = NoTimer
  /\ invalidated' = TRUE
  /\ did' = [act EXCEPT !.settled = "resolved", !.why = "undefined", !.cancelled = TRUE,
                        !.replaced = (cancel(_refreshTokenTimeout) # timers)]

\* The tokens of data a revocation request is made for.
Revocable(data) ==
  {h \in {"access_token", "refresh_token"} : ~isEmpty(data[h])}

\* A name for a new invalidate call: the least number above 1 that no
\* revocation request in flight carries.
NewCall ==
  CHOOSE i \in 2..(MaxCalls + 2) :
    /\ \A q \in InFlight : q.kind = "revoke" => q.call # i
    /\ \A j \in 2..(i - 1) : \E q \in InFlight : q.kind = "revoke" /\ q.call = j

\* invalidate(data). Promise.all of no request is fulfilled before anything
\* else runs: its `succeed` is part of this step.
OAuth2Invalidate(data) ==
  LET call == NewCall
  IN /\ nCalls < MaxCalls
     /\ nCalls' = nCalls + 1
     /\ IF isEmpty(serverTokenRevocationEndpoint) \/ Revocable(data) = {}
          THEN /\ success([Did("invalidate", call) EXCEPT !.input = data])
               /\ UNCHANGED <<reqs, invalidating>>
          ELSE /\ reqs' = reqs (+) SetToBag({Request("revoke", call, Undefined, Absent,
                                                     Undefined, h) : h \in Revocable(data)})
               /\ invalidating' = invalidating \cup {call}
               /\ did' = [Did("invalidate", call)
                            EXCEPT !.input = data, !.requests = Revocable(data)]
               /\ UNCHANGED <<_refreshTokenTimeout, timers, invalidated>>
     /\ UNCHANGED <<config, now>>

\* The revocation requests of r's call that are in flight besides r.
Siblings(r) ==
  {q \in BagToSet(reqs (-) SetToBag({r})) : q.kind = "revoke" /\ q.call = r.call}

\* The revocation request r succeeded: Promise.all is fulfilled once every
\* request of the call has succeeded.
revokeResponse(r) ==
  /\ r.kind = "revoke"
  /\ reqs' = reqs (-) SetToBag({r})
  /\ IF r.call \in invalidating /\ Siblings(r) = {}
       THEN /\ success(Did("revokeResponse", r.call))
            /\ invalidating' = invalidating \ {r.call}
       ELSE /\ did' = Did("revokeResponse", r.call)
            /\ UNCHANGED <<_refreshTokenTimeout, timers, invalidated, invalidating>>
  /\ UNCHANGED <<config, now, nCalls>>

\* The revocation request r failed: Promise.all is rejected by the first
\* request that fails, whatever is still in flight.
revokeFailed(r) ==
  /\ r.kind = "revoke"
  /\ reqs' = reqs (-) SetToBag({r})
  /\ IF r.call \in invalidating
       THEN /\ success(Did("revokeFailed", r.call))
            /\ invalidating' = invalidating \ {r.call}
       ELSE /\ did' = Did("revokeFailed", r.call)
            /\ UNCHANGED <<_refreshTokenTimeout, timers, invalidated, invalidating>>
  /\ UNCHANGED <<config, now, nCalls>>

\* --------------------------------------------------------- the clock
Tick ==
  /\ now < StartTime + MaxTicks * TickMs
  /\ now' = now + TickMs
  /\ did' = Did("Tick", 0)
  /\ UNCHANGED <<config, _refreshTokenTimeout, timers, reqs, invalidating, nCalls,
                 invalidated>>

\* What invalidate is given: the tokens of the session's authenticated data.
InvalidateData == {d \in Snapshots : d.expires_in = Undefined /\ d.expires_at = Undefined}

\* The authenticator on its own, under every configuration.
InitOAuth2 ==
  /\ SessionInit
  /\ \E r \in BOOLEAN, e \in {Absent, RevocationEndpoint}, t \in BOOLEAN, f \in BOOLEAN :
       OAuth2Init(r, e, t, f)

NextOAuth2 ==
  \/ OAuth2Authenticate /\ UNCHANGED manager
  \/ \E data \in Snapshots : OAuth2Restore(data) /\ UNCHANGED manager
  \/ \E data \in InvalidateData : OAuth2Invalidate(data) /\ UNCHANGED manager
  \/ \E r \in InFlight, response \in Responses : tokenResponse(r, response) /\ UNCHANGED manager
  \/ \E r \in InFlight : tokenFailed(r) /\ UNCHANGED manager
  \/ \E t \in timers : timerFires(t) /\ UNCHANGED manager
  \/ \E r \in InFlight, response \in RefreshResponses : refreshResponse(r, response)
                                                         /\ UNCHANGED manager
  \/ \E r \in InFlight : refreshFailed(r) /\ UNCHANGED manager
  \/ \E r \in InFlight : revokeResponse(r) /\ UNCHANGED manager
  \/ \E r \in InFlight : revokeFailed(r) /\ UNCHANGED manager
  \/ Tick /\ UNCHANGED manager

SpecOAuth2 == InitOAuth2 /\ [][NextOAuth2]_vars

\* ================================================================ claims

\* C1: in every reachable state, isAuthenticated is true if and only if
\* content.authenticated is non-empty and authenticatorId is non-null.
C1_AuthenticatedIffContentAndAuthenticator ==
  isAuthenticated <=> (content.authenticated # EmptyObj /\ authenticator # Null)

\* ------------------------------------------------------------------ C2
AuthenticationSucceeded == Event("authenticationSucceeded", NoErr)
InvalidationSucceeded == Event("invalidationSucceeded", NoErr)

\* The promises a step added, and the ones it took away.
Added == BagToSet(tasks' (-) tasks)
Removed == BagToSet(tasks (-) tasks')

\* C2: authenticationSucceeded is emitted at most once per
\* Unauthenticated->Authenticated transition: only a _setup that itself took the
\* session from unauthenticated to authenticated is armed to emit, it emits
\* when its persist resolves and is gone with that step; a _setup started by an
\* authenticator's sessionDataUpdated is never armed, nor is one that found the
\* session already authenticated (a second successful authenticate).
C2_AuthenticationSucceededOncePerTransition ==
  [][ /\ \A t \in Added :
           (t.pc = "setup" /\ t.trigger)
             => (~isAuthenticated /\ isAuthenticated' /\ t.op # "updated")
      /\ AuthenticationSucceeded \in out'.events
           => /\ out'.act = "setupPersisted"
              /\ out'.op # "updated"
              /\ \E t \in Removed : t.pc = "setup" /\ t.trigger /\ tasks' = Without(t)
    ]_vars

\* The second operation was an authenticate that succeeded on a session already
\* authenticated: its persist resolved without an event.
C2_Witness ==
  /\ out.act = "setupPersisted"
  /\ out.op = "authenticate"
  /\ out.events = {}
  /\ isAuthenticated
  /\ nOps = 2
  /\ tasks = EmptyBag

\* ------------------------------------------------------------------ C3
Unauthenticated ==
  ~isAuthenticated /\ authenticator = Null /\ content.authenticated = EmptyObj

InvalidateResolvedNow ==
  out.op = "invalidate" /\ out.settled = <<Settled("invalidate", "resolved", NoErr)>>

InvalidateRejectedNow ==
  /\ out.op = "invalidate"
  /\ out.settled # <<>>
  /\ out.settled[1].how = "rejected"

C5_FailedAuthenticateClearsAndRejects ==
  [][ /\ out'.act = "authenticateRejected"
           => /\ Unauthenticated'
              /\ out'.persist = <<content'>>
              /\ out'.events = {}
              /\ out'.settled = <<>>
              /\ out'.err \in Errors
              /\ \E t \in Added : /\ t.op = "authenticate" /\ t.pc = "clear"
                                  /\ t.err = out'.err /\ ~t.trigger
      /\ \A t \in Removed :
           (t.op = "authenticate" /\ t.pc = "clear")
             => /\ out'.settled = <<Settled("authenticate", "rejected", t.err)>>
                /\ t.err \in Errors
                /\ out'.events = {}
                /\ UNCHANGED <<isAuthenticated, authenticator, content>>
    ]_vars

\* authenticate rejected with e2, the persist of the cleared state failed, and
\* the promise rejected with e2.
C5_Witness ==
  /\ out.act = "clearPersistFailed"
  /\ out.op = "authenticate"
  /\ out.settled = <<Settled("authenticate", "rejected", "e2")>>
  /\ Unauthenticated

\* ------------------------------------------------------------------ C6
NoAuthenticatorSnapshot ==
  out.act = "restoreStoreResolved" /\ out.input.authenticated.authenticator = Absent

\* C6: when store.restore resolves with a snapshot that names no authenticator
\* (with or without an access_token), the session is left Unauthenticated with
\* empty content.authenticated and the snapshot's other keys as its content, that
\* content is handed to store.persist, no authenticator is called, and the promise
\* of restore rejects whichever way the persist settles.
C6_RestoreWithoutAuthenticatorRejects ==
  [][ /\ NoAuthenticatorSnapshot'
           => /\ Unauthenticated'
              /\ content'.other = out'.input.other
              /\ out'.persist = <<content'>>
              /\ out'.call = <<>>
              /\ out'.events = {}
              /\ \E t \in Added : t.op = "restore" /\ t.pc = "clear" /\ ~t.trigger
      /\ \A t \in Removed :
           (t.op = "restore" /\ t.pc = "clear")
             => /\ out'.settled = <<Settled("restore", "rejected", NoErr)>>
                /\ out'.events = {}
    ]_vars

\* A snapshot with an access_token and another key, but no authenticator.
C6_Witness ==
  /\ NoAuthenticatorSnapshot
  /\ out.input.authenticated.access_token = "AT1"
  /\ out.input.other = "u1"
  /\ content = [authenticated |-> EmptyObj, other |-> "u1"]
  /\ ~isAuthenticated

\* ------------------------------------------------------------------ C7
\* C7: store.restore resolving with a snapshot that names a registered
\* authenticator calls that authenticator's restore; when it resolves with data,
\* the session is Authenticated under that name, its content is the snapshot with
\* `authenticated` replaced by the data (filed under the name), and neither that
\* step nor the settlement of its persist triggers authenticationSucceeded.
C7_SuccessfulRestoreIsSilent ==
  [][ /\ (out'.act = "restoreStoreResolved"
            /\ out'.input.authenticated.authenticator \in Registered)
           => /\ out'.call = <<Call("restore", out'.input.authenticated.authenticator)>>
              /\ \E t \in Added : /\ t.op = "restore" /\ t.pc = "authenticator"
                                  /\ t.name = out'.input.authenticated.authenticator
                                  /\ t.snap.other = out'.input.other
      /\ out'.act = "restoreAuthResolved"
           => /\ isAuthenticated'
              /\ authenticator' = out'.name
              /\ out'.name \in Registered
              /\ content'.other = out'.input.other
              /\ content'.authenticated =
                   [authenticator |-> out'.name, access_token |-> out'.data.access_token]
              /\ out'.events = {}
              /\ \E t \in Removed : t.op = "restore" /\ t.name = out'.name
              /\ \A t \in Added : t.op = "restore" /\ t.pc = "setup" /\ ~t.trigger
      /\ \A t \in Removed :
           (t.op = "restore" /\ t.pc = "setup")
             => AuthenticationSucceeded \notin out'.events
    ]_vars

\* The only operation so far was a restore: it took the session from
\* unauthenticated to authenticated and its persist resolved without an event.
C7_Witness ==
  /\ out.act = "setupPersisted"
  /\ out.op = "restore"
  /\ out.events = {}
  /\ nOps = 1
  /\ isAuthenticated
  /\ content.authenticated.access_token = "AT2"

\* ------------------------------------------------------------------ C8
\* C8 as stated: when the restore of the authenticator named by a store
\* notification resolves, the session is Authenticated under that name, and
\* authenticationSucceeded is emitted (here: at the latest when the persist
\* resolves).
C8_StoreNotificationAlwaysEmits ==
  /\ out.act = "syncAuthResolved" => (isAuthenticated /\ authenticator = out.name)
  /\ (out.act = "setupPersisted" /\ out.op = "sync")
       => AuthenticationSucceeded \in out.events

\* C8 amended: a store notification naming a registered x while busy is false
\* calls x's restore; when it resolves the session is Authenticated with
\* authenticatorId x, and authenticationSucceeded is emitted, when the persist
\* resolves, exactly if the session was not authenticated at the moment x's
\* restore resolved.
C8_StoreNotificationEmitsOnTransition ==
  [][ /\ (out'.act = "storeSessionDataUpdated" /\ ~busy
            /\ out'.input.authenticated.authenticator \in Registered)
           => /\ out'.call = <<Call("restore", out'.input.authenticated.authenticator)>>
              /\ \E t \in Added : /\ t.op = "sync" /\ t.pc = "authenticator"
                                  /\ t.name = out'.input.authenticated.authenticator
      /\ out'.act = "syncAuthResolved"
           => /\ isAuthenticated'
              /\ authenticator' = out'.name
              /\ \E t \in Removed : t.op = "sync" /\ t.name = out'.name
              /\ \A t \in Added : t.op = "sync" /\ t.pc = "setup"
                                    /\ (t.trigger <=> ~isAuthenticated)
      /\ \A t \in Removed :
           (t.op = "sync" /\ t.pc = "setup" /\ out'.act = "setupPersisted")
             => (AuthenticationSucceeded \in out'.events <=> t.trigger)
    ]_vars

\* The scenario: the notification names a1, the session was unauthenticated,
\* a1's restore and the persist resolved, and the event was emitted.
C8_Witness ==
  /\ out.act = "setupPersisted"
  /\ out.op = "sync"
  /\ out.name = "a1"
  /\ AuthenticationSucceeded \in out.events
  /\ isAuthenticated
  /\ authenticator = "a1"
  /\ nOps = 1

\* ------------------------------------------------------------------ C9
\* C9: a store notification that arrives while busy is true changes no session
\* field, binds nothing, starts no promise, calls no authenticator, persists
\* nothing and triggers no event.
C9_NotificationWhileBusyIsDropped ==
  [][ (out'.act = "storeSessionDataUpdated" /\ busy)
        => /\ UNCHANGED <<isAuthenticated, authenticator, content, attemptedTransition, busy>>
           /\ UNCHANGED <<listenersUpdated, listenersInvalidated, tasks>>
           /\ out'.events = {}
           /\ out'.call = <<>>
           /\ out'.persist = <<>>
           /\ out'.settled = <<>>
           /\ out'.dropped
    ]_vars

\* A notification naming a registered authenticator was dropped while an
\* authenticate was waiting for its authenticator.
C9_Witness ==
  /\ out.act = "storeSessionDataUpdated"
  /\ out.dropped
  /\ out.input.authenticated = [authenticator |-> "a1", access_token |-> "AT2"]
  /\ busy
  /\ \E t \in Pending : t.op = "authenticate" /\ t.pc = "authenticator"

\* ----------------------------------------------------------------- C10
\* C10: while a caller's authenticate, invalidate or restore is in flight (its
\* promise has not settled), busy is true and no step of a store-originated
\* reconciliation runs other than dropping the notification.
C10_BusyWhileCallerOperationInFlight ==
  (\E t \in Pending : t.op \in CallerOps)
    => (busy /\ (out.op = "sync" => out.dropped))

\* ----------------------------------------------------------------- C11
Bound == listenersUpdated \cup listenersInvalidated

\* C11: at every moment at most one authenticator has the session bound to its
\* sessionDataUpdated / sessionDataInvalidated events, and a session that has
\* been cleared (not authenticated, authenticatorId null) is bound to none.
C11_AtMostOneAuthenticatorBound ==
  /\ Cardinality(Bound) <= 1
  /\ (~isAuthenticated /\ authenticator = Null) => Bound = {}

\* ----------------------------------------------------------------- C12
\* C12: session invalidate called while the session is not authenticated
\* resolves at once, calls no authenticator, persists nothing, emits no event
\* and leaves isAuthenticated, authenticatorId, content, attemptedTransition and
\* busy as they were.
C12_InvalidateUnauthenticatedIsNoOp ==
  [][ (out'.act = "invalidate" /\ ~isAuthenticated)
        => /\ out'.settled = <<Settled("invalidate", "resolved", NoErr)>>
           /\ out'.call = <<>>
           /\ out'.persist = <<>>
           /\ out'.events = {}
           /\ UNCHANGED tasks
           /\ UNCHANGED <<isAuthenticated, authenticator, content, attemptedTransition, busy>>
    ]_vars

\* ----------------------------------------------------------------- C19
\* C19: when an authenticator the session is bound to emits sessionDataUpdated
\* with data while the session is Authenticated (isAuthenticated true,
\* authenticatorId non-null), the session stays Authenticated under the same
\* authenticatorId, content.authenticated becomes the data (filed under that
\* authenticatorId) with the other keys kept, that content is handed to
\* store.persist, nothing is triggered by the handler, and the settlement of that
\* persist triggers neither authenticationSucceeded nor invalidationSucceeded.
C19_RefreshUpdateIsSilent ==
  [][ /\ (out'.act = "_onSessionDataUpdated" /\ isAuthenticated /\ authenticator # Null)
           => /\ isAuthenticated'
              /\ authenticator' = authenticator
              /\ content'.authenticated =
                   [authenticator |-> authenticator, access_token |-> out'.data.access_token]
              /\ content'.other = content.other
              /\ out'.persist = <<content'>>
              /\ out'.events = {}
              /\ ~out'.thrown
              /\ \E t \in Added : t.op = "updated" /\ t.pc = "setup" /\ ~t.trigger
      /\ \A t \in Removed :
           (t.op = "updated" /\ t.pc = "setup")
             => /\ AuthenticationSucceeded \notin out'.events
                /\ InvalidationSucceeded \notin out'.events
    ]_vars

\* authenticate('a1') resolved, then a1 emitted sessionDataUpdated with a new
\* token: the session is authenticated under a1 with the new token.
C19_Witness ==
  /\ out.act = "_onSessionDataUpdated"
  /\ ~out.thrown
  /\ out.data.access_token = "AT2"
  /\ isAuthenticated
  /\ authenticator = "a1"
  /\ content.authenticated = [authenticator |-> "a1", access_token |-> "AT2"]
  /\ out.persist = <<content>>

\* ----------------------------------------------------------------- C20
\* C20: when the store.persist of a _setup rejects (after an authenticate, a
\* restore, a reconciliation or an authenticator's update), the session is left
\* Unauthenticated (isAuthenticated false, authenticatorId null,
\* content.authenticated empty, the other keys kept), authenticationSucceeded is
\* not triggered, and that _setup's promise is gone without triggering it later.
C20_SetupPersistFailureRollsBack ==
  [][ out'.act = "setupPersistFailed"
        => /\ Unauthenticated'
           /\ content'.other = content.other
           /\ out'.events = {}
           /\ \E t \in Removed : t.pc = "setup" /\ tasks' = Without(t)
           /\ Added = {}
    ]_vars

\* The persist of a successful authenticate('a1') that was armed to emit
\* rejected: the session is unauthenticated and nothing was emitted.
C20_Witness ==
  /\ out.act = "setupPersistFailed"
  /\ out.op = "authenticate"
  /\ out.name = "a1"
  /\ out.events = {}
  /\ Unauthenticated
  /\ tasks = EmptyBag
  /\ nOps = 1

\* ----------------------------------------------------------------- C13
InvalidateSteps == {"invalidate", "revokeResponse", "revokeFailed"}

\* C13: the authenticator's invalidate never rejects; with no revocation
\* endpoint it resolves at once without a request; with one it issues one
\* revocation request per token present in the data and resolves once all of
\* them have settled (none of the call's requests is still in flight), whether
\* they succeeded or failed; when it resolves no refresh timer is pending.
C13_InvalidateWaitsAndAlwaysResolves ==
  did.act \in InvalidateSteps
    => /\ did.settled # "rejected"
       /\ (did.act = "invalidate" /\ serverTokenRevocationEndpoint = Absent)
            => (did.settled = "resolved" /\ did.requests = {})
       /\ (did.act = "invalidate" /\ serverTokenRevocationEndpoint # Absent)
            => did.requests = {h \in {"access_token", "refresh_token"} : did.input[h] # Absent}
       /\ did.settled = "resolved"
            => /\ timers = {}
               /\ \A q \in InFlight : ~(q.kind = "revoke" /\ q.call = did.call)

\* ----------------------------------------------------------------- C14
\* The requests a step took out of flight, and the ones it put in flight.
Answered == BagToSet(reqs (-) reqs')
Issued == BagToSet(reqs' (-) reqs)

\* restore was given an expired snapshot with a refresh token, refresh enabled.
ExpiredWithRefreshToken(data) ==
  /\ data.expires_at # Undefined /\ data.expires_at < now
  /\ data.refresh_token # Absent
  /\ refreshAccessTokens

\* C14 as stated: restore of such a snapshot settles only with its refresh
\* request, resolves if that succeeds and rejects if it fails, and the
\* expires_at it resolves with is strictly greater than the snapshot's.
C14_RefreshedExpiryAlwaysGreater ==
  [][ /\ (did'.act = "restore" /\ ExpiredWithRefreshToken(did'.input))
           => /\ did'.settled = "none"
              /\ \E r \in Issued : r.kind = "refresh" /\ r.call = 1 /\ reqs' = reqs (+) SetToBag({r})
      /\ \A r \in Answered :
           (r.kind = "refresh" /\ r.call = 1 /\ r.refreshToken # Absent)
             => /\ did'.act = "refreshResponse"
                     => /\ did'.settled = "resolved"
                        /\ did'.value.expires_at # Undefined
                        /\ did'.value.expires_at > r.expiresAt
                /\ did'.act = "refreshFailed" => did'.settled = "rejected"
    ]_vars

\* C14 amended: restore of such a snapshot settles only with its refresh
\* request, resolves if that succeeds and rejects if it fails; the expires_at it
\* resolves with is strictly greater than the snapshot's when the response
\* carries a non-zero expires_in or the snapshot carries an expires_in, and is
\* absent otherwise.
C14_RefreshedExpiryGreaterWhenKnown ==
  [][ /\ (did'.act = "restore" /\ ExpiredWithRefreshToken(did'.input))
           => /\ did'.settled = "none"
              /\ \E r \in Issued : r.kind = "refresh" /\ r.call = 1 /\ reqs' = reqs (+) SetToBag({r})
      /\ \A r \in Answered :
           (r.kind = "refresh" /\ r.call = 1 /\ r.refreshToken # Absent)
             => /\ did'.act = "refreshResponse"
                     => /\ did'.settled = "resolved"
                        /\ IF did'.input.expires_in \notin {Undefined, 0}
                              \/ r.expiresIn # Undefined
                             THEN /\ did'.value.expires_at # Undefined
                                  /\ did'.value.expires_at > r.expiresAt
                             ELSE did'.value.expires_at = Undefined
                /\ did'.act = "refreshFailed" => did'.settled = "rejected"
    ]_vars

\* The refresh of a restore succeeded with a response without expires_in: the
\* snapshot's expires_in gave the new expires_at.
C14_Witness ==
  /\ did.act = "refreshResponse"
  /\ did.call = 1
  /\ did.settled = "resolved"
  /\ did.input.expires_in = Undefined
  /\ did.value.expires_in = 10
  /\ did.value.expires_at = now + 10 * MsPerSecond

C16_InvalidResponseOnlyRejects ==
  (did.act = "tokenResponse" /\ did.input.access_token = Absent)
    => /\ did.settled = "rejected"
       /\ ~did.scheduled
       /\ ~did.cancelled
       /\ did.value = did.input
       /\ did.why = "response"

\* ----------------------------------------------------------------- C17
\* C17: at most one refresh timer is pending at any time, and it is the one
\* _refreshTokenTimeout names (so that the next schedule or invalidate cancels
\* it); a step that schedules a timer has cancelled the one before.
C17_AtMostOneRefreshTimer ==
  /\ Cardinality(timers) <= 1
  /\ \A t \in timers : t.id = _refreshTokenTimeout
  /\ did.scheduled => did.cancelled

\* A timer was pending when the second call scheduled one: it was cancelled
\* and one timer is pending.
C17_Witness ==
  /\ did.scheduled
  /\ did.replaced
  /\ Cardinality(timers) = 1
  /\ nCalls = 2

\* ----------------------------------------------------------------- C18
\* C18: once invalidate has resolved and until authenticate or restore is
\* called again, no refresh timer is pending, no refresh request is issued and
\* no sessionDataUpdated is emitted.
C18_NothingAfterInvalidate ==
  invalidated
    => /\ timers = {}
       /\ "refresh" \notin did.requests
       /\ did.emitted = <<>>

\* ----------------------------------------------------------------- C21
\* C21: whenever busy is true it becomes false again at some point, provided
\* every authenticator and store promise settles; this includes the operations
\* and store notifications that name an authenticator that cannot be found.
C21_BusyEventuallyCleared ==
  (busy = TRUE) ~> (busy = FALSE)

\* ----------------------------------------------------------------- C22
\* C22: an emitted lifecycle event agrees with the session state at the moment
\* of emission: authenticationSucceeded is emitted only while isAuthenticated
\* is true, invalidationSucceeded only while it is false.
C22_EventsAgreeWithState ==
  /\ AuthenticationSucceeded \in out.events => isAuthenticated
  /\ InvalidationSucceeded \in out.events => ~isAuthenticated

\* ----------------------------------------------------------------- C23
\* C23: when the promise of the only operation started so far, an authenticate
\* or a restore, resolves, the session is authenticated by the authenticator
\* that was requested (authenticate) or named in the snapshot (restore).
C23_ResolvedMeansAuthenticated ==
  \A op \in {"authenticate", "restore"} :
    (nOps = 1 /\ out.settled = <<Settled(op, "resolved", NoErr)>>)
      => /\ isAuthenticated
         /\ authenticator = out.name
====
